---- MODULE Spec2Model ----
(***************************************************************************)
(* Pointer tilt & glow engine of ElectricBorderCard (frame-coalesced       *)
(* version) together with the device capability classifier of              *)
(* lib/performance-utils.                                                  *)
(*                                                                         *)
(* JavaScript numbers are modelled as exact fractions [n, d]; d = 0        *)
(* encodes the IEEE-754 specials: 1/0 = Infinity, -1/0 = -Infinity,        *)
(* 0/0 = NaN.                                                              *)
(***************************************************************************)
EXTENDS Integers, Sequences, FiniteSets, TLC

\* ------------------------------------------------------------------------
\* Bounds of the model
\* ------------------------------------------------------------------------
\* total number of requestAnimationFrame handles the browser hands out
MaxRafRequests == 3
\* cap of the refresh-tick clock that measures the time since the last mutation
MaxGapTicks == 2

\* ------------------------------------------------------------------------
\* Program constants
\* ------------------------------------------------------------------------
RestX == 15
RestY == -20
RestZ == 5
InitialGlow == 50
RollWeight == 3
SmallScreenMaxWidth == 768
MobileMaxRotation == 5
DesktopMaxRotation == 10
MobileThrottleDelay == 100
DesktopThrottleDelay == 16
\* "Throttle updates using RAF for 60fps": one display refresh every 16 ms
RefreshIntervalMs == 16

\* ------------------------------------------------------------------------
\* JavaScript number arithmetic
\* ------------------------------------------------------------------------
Abs(i) == IF i < 0 THEN -i ELSE i

Sign(i) == IF i < 0 THEN -1 ELSE IF i > 0 THEN 1 ELSE 0

RECURSIVE GCD(_, _)
GCD(a, b) == IF b = 0 THEN a ELSE GCD(b, a % b)

Num(n, d) ==
  IF d = 0 THEN [n |-> Sign(n), d |-> 0]
  ELSE LET g == GCD(Abs(n), Abs(d))
       IN  [n |-> (Sign(d) * n) \div g, d |-> Abs(d) \div g]

Int2Num(i) == [n |-> i, d |-> 1]

NaN == [n |-> 0, d |-> 0]

IsNaN(a) == a.d = 0 /\ a.n = 0

IsInf(a) == a.d = 0 /\ a.n # 0

Neg(a) == [n |-> -a.n, d |-> a.d]

Add(a, b) ==
  IF IsNaN(a) \/ IsNaN(b) THEN NaN
  ELSE IF IsInf(a) /\ IsInf(b) THEN (IF a.n = b.n THEN a ELSE NaN)
  ELSE IF IsInf(a) THEN a
  ELSE IF IsInf(b) THEN b
  ELSE Num(a.n * b.d + b.n * a.d, a.d * b.d)

Sub(a, b) == Add(a, Neg(b))

Mul(a, b) ==
  IF IsNaN(a) \/ IsNaN(b) THEN NaN
  ELSE IF IsInf(a) \/ IsInf(b)
       THEN (IF a.n = 0 \/ b.n = 0 THEN NaN ELSE [n |-> Sign(a.n) * Sign(b.n), d |-> 0])
  ELSE Num(a.n * b.n, a.d * b.d)

Div(a, b) ==
  IF IsNaN(a) \/ IsNaN(b) THEN NaN
  ELSE IF IsInf(a) THEN (IF IsInf(b) THEN NaN
                         ELSE [n |-> a.n * (IF b.n < 0 THEN -1 ELSE 1), d |-> 0])
  ELSE IF IsInf(b) THEN Int2Num(0)
  ELSE IF b.n = 0 THEN (IF a.n = 0 THEN NaN ELSE [n |-> Sign(a.n), d |-> 0])
  ELSE Num(a.n * b.d, a.d * b.n)

\* a <= b as JavaScript evaluates it (false as soon as one side is NaN)
Leq(a, b) ==
  IF IsNaN(a) \/ IsNaN(b) THEN FALSE
  ELSE IF IsInf(a) THEN (a.n < 0 \/ a = b)
  ELSE IF IsInf(b) THEN b.n > 0
  ELSE a.n * b.d <= b.n * a.d

NumAbs(a) == [n |-> Abs(a.n), d |-> a.d]

\* ------------------------------------------------------------------------
\* Device capability classifier (lib/performance-utils)
\* ------------------------------------------------------------------------
ViewportWidths == {400, 480, 481, 768, 769, 1440}

\* navigator.maxTouchPoints where the runtime does not have it (undefined)
Undefined == -1

\* what a runtime can report: hasWindow is typeof window !== 'undefined',
\* onTouchStart is 'ontouchstart' in window, hasMatchMedia is whether
\* window.matchMedia is a function, reducedMotion is what its query matches
Runtimes == [hasWindow : BOOLEAN, onTouchStart : BOOLEAN,
             maxTouchPoints : {Undefined, 0, 1}, innerWidth : ViewportWidths,
             hasMatchMedia : BOOLEAN, reducedMotion : BOOLEAN]

\* the runtimes a card mounts in: a browser that answers every query
Envs == {r \in Runtimes : r.hasWindow /\ r.hasMatchMedia /\ r.maxTouchPoints # Undefined}

\* isMobileDevice with a strict comparison of the width
isMobileDevice_strictWidth(env) ==
  IF ~env.hasWindow THEN FALSE
  ELSE LET hasTouch == env.onTouchStart \/ env.maxTouchPoints > 0
           isSmallScreen == env.innerWidth < SmallScreenMaxWidth
       IN  hasTouch \/ isSmallScreen

isMobileDevice(env) ==
  IF ~env.hasWindow THEN FALSE
  ELSE LET hasTouch == env.onTouchStart \/ env.maxTouchPoints > 0
           isSmallScreen == env.innerWidth <= SmallScreenMaxWidth
       IN  hasTouch \/ isSmallScreen

\* window.matchMedia(...) is a call of undefined where the runtime lacks it
matchMediaThrows(env) == env.hasWindow /\ ~env.hasMatchMedia

prefersReducedMotion(env) ==
  IF ~env.hasWindow THEN FALSE ELSE env.reducedMotion

getPerformanceSettings(env) ==
  LET isMobile == isMobileDevice(env)
      reducedMotion == prefersReducedMotion(env)
  IN  [enableComplexFilters |-> ~isMobile,
       enableBlur |-> ~isMobile,
       enableTransitions |-> ~reducedMotion,
       throttleDelay |-> IF isMobile THEN MobileThrottleDelay ELSE DesktopThrottleDelay,
       maxRotation |-> IF isMobile THEN MobileMaxRotation ELSE DesktopMaxRotation]

\* ------------------------------------------------------------------------
\* Environment of one card: layout and pointer
\* ------------------------------------------------------------------------
\* what getBoundingClientRect() can return for the card wrapper: the layout of
\* the example (300x200), the same box after a layout shift, and the empty
\* rectangle of an element that is not rendered
Rects == {[left |-> 0, top |-> 0, width |-> 300, height |-> 200],
          [left |-> 150, top |-> 100, width |-> 300, height |-> 200],
          [left |-> 0, top |-> 0, width |-> 0, height |-> 0]}

\* pointer positions of the events: top-left corner, centre, right edge at
\* mid-height and bottom-right corner of the 300x200 box at the origin
Samples == {[clientX |-> 0, clientY |-> 0], [clientX |-> 150, clientY |-> 100],
            [clientX |-> 300, clientY |-> 100], [clientX |-> 300, clientY |-> 200]}

NoSample == [clientX |-> -1, clientY |-> -1]

\* the browser dispatches mouse events of the wrapper only for a pointer that
\* is over its box
Inside(x, y, r) ==
  /\ r.width > 0 /\ r.height > 0
  /\ r.left <= x /\ x <= r.left + r.width
  /\ r.top <= y /\ y <= r.top + r.height

VARIABLES
  phase,          \* "mounted" | "disposed"
  cardRef,        \* TRUE: cardRef.current is the wrapper element; FALSE: null
  rafIdRef,       \* rafIdRef.current; 0 is null
  rafQueue,       \* animation-frame callbacks the browser holds: [id, clientX, clientY]
  nextRafId,      \* next handle requestAnimationFrame returns
  rotateX, rotateY, rotateZ, glowX, glowY, isHovered,
  perfSettings,   \* the memoised getPerformanceSettings()
  rect,           \* what getBoundingClientRect() returns now
  pointerOver,    \* the pointer is over the wrapper (between mouseenter and mouseleave)
  ticksSinceMutation, \* refresh ticks since the last frame-callback mutation; -1: none yet
  lastOp,         \* the handler that ran last
  applied,        \* samples whose frame callback mutated the state in the last step
  moveCount,      \* mousemove events since the last refresh tick
  lastSample,     \* coordinates of the latest mousemove event since the last refresh tick
  tickMoves,      \* moveCount as the last refresh tick found it (0 after other steps)
  tickSample      \* lastSample as the last refresh tick found it (NoSample after other steps)

tilt == <<rotateX, rotateY, rotateZ, glowX, glowY, isHovered>>

raf == <<rafIdRef, rafQueue, nextRafId>>

world == <<perfSettings, rect, pointerOver>>

vars == <<phase, cardRef, rafIdRef, rafQueue, nextRafId,
          rotateX, rotateY, rotateZ, glowX, glowY, isHovered,
          perfSettings, rect, pointerOver, ticksSinceMutation,
          lastOp, applied, moveCount, lastSample, tickMoves, tickSample>>

\* no damping of the normalized offset
dampingFactor_none == Num(1, 1)

dampingFactor == Num(8, 10)

\* ------------------------------------------------------------------------
\* Browser primitives
\* ------------------------------------------------------------------------
cancelAnimationFrame(queue, id) == {cb \in queue : cb.id # id}

requestAnimationFrame(queue, id, x, y) ==
  queue \cup {[id |-> id, clientX |-> x, clientY |-> y]}

\* ------------------------------------------------------------------------
\* ElectricBorderCard
\* ------------------------------------------------------------------------
Init ==
  /\ phase = "mounted"
  /\ cardRef = TRUE
  /\ rafIdRef = 0
  /\ rafQueue = {}
  /\ nextRafId = 1
  /\ rotateX = Int2Num(RestX)
  /\ rotateY = Int2Num(RestY)
  /\ rotateZ = Int2Num(RestZ)
  /\ glowX = Int2Num(InitialGlow)
  /\ glowY = Int2Num(InitialGlow)
  /\ isHovered = FALSE
  /\ \E e \in Envs : perfSettings = getPerformanceSettings(e)
  /\ rect \in {r \in Rects : r.width > 0}
  /\ pointerOver = FALSE
  /\ ticksSinceMutation = -1
  /\ lastOp = "mount"
  /\ applied = <<>>
  /\ moveCount = 0
  /\ tickMoves = 0
  /\ lastSample = NoSample
  /\ tickSample = NoSample

\* the fractional position of the pointer in the rectangle, in percent
glowPos(client, origin, size) ==
  Mul(Div(Int2Num(client - origin), Int2Num(size)), Int2Num(100))

\* normalizedX / normalizedY of the frame callback
normalized(client, origin, size) ==
  LET center == Add(Int2Num(origin), Div(Int2Num(size), Int2Num(2)))
      mouse == Sub(Int2Num(client), center)
  IN  Mul(Div(mouse, Div(Int2Num(size), Int2Num(2))), dampingFactor)

rotationZ(normalizedX, maxRotation) == Mul(normalizedX, Int2Num(RollWeight))

\* the rotation limit of the un-throttled card, kept whatever the profile
maxRotationOf_hardcoded(settings) == DesktopMaxRotation

\* "Use device-appropriate max rotation"
maxRotationOf(settings) == settings.maxRotation

\* the frame callback of handleMouseMove, run on the record s of the fields it
\* reads and writes, for the event sample e
frameCallback(s, e) ==
  IF ~s.cardRef THEN s
  ELSE LET maxRotation == Int2Num(maxRotationOf(perfSettings))
           normalizedX == normalized(e.clientX, rect.left, rect.width)
           normalizedY == normalized(e.clientY, rect.top, rect.height)
           rotationY == Mul(normalizedX, maxRotation)
           rotationX == Mul(Neg(normalizedY), maxRotation)
       IN  [s EXCEPT !.rotateX = Add(Int2Num(RestX), rotationX),
                     !.rotateY = Add(Int2Num(RestY), rotationY),
                     !.rotateZ = Add(Int2Num(RestZ), rotationZ(normalizedX, maxRotation)),
                     !.glowX = glowPos(e.clientX, rect.left, rect.width),
                     !.glowY = glowPos(e.clientY, rect.top, rect.height),
                     !.rafIdRef = 0,
                     !.applied = Append(s.applied, [clientX |-> e.clientX, clientY |-> e.clientY])]

\* the browser runs the callbacks of one frame in the order they were requested
RECURSIVE runFrame(_, _)
runFrame(s, queue) ==
  IF queue = {} THEN s
  ELSE LET first == CHOOSE cb \in queue : \A o \in queue : cb.id <= o.id
       IN  runFrame(frameCallback(s, first), queue \ {first})

handleMouseEnter(x, y) ==
  /\ phase = "mounted" /\ ~pointerOver /\ Inside(x, y, rect)
  /\ pointerOver' = TRUE
  /\ IF ~cardRef
     THEN UNCHANGED <<glowX, glowY, isHovered>>
     ELSE /\ glowX' = glowPos(x, rect.left, rect.width)
          /\ glowY' = glowPos(y, rect.top, rect.height)
          /\ isHovered' = TRUE
  /\ lastOp' = "enter"
  /\ applied' = <<>>
  /\ tickMoves' = 0
  /\ tickSample' = NoSample
  /\ UNCHANGED <<phase, cardRef, raf, rotateX, rotateY, rotateZ, perfSettings, rect,
                 ticksSinceMutation, moveCount, lastSample>>

\* handleMouseMove without the cancellation of the pending frame
handleMouseMove_noCancel(x, y) ==
  /\ phase = "mounted" /\ pointerOver /\ Inside(x, y, rect)
  /\ nextRafId <= MaxRafRequests
  /\ IF ~cardRef
     THEN UNCHANGED raf
     ELSE /\ rafQueue' = requestAnimationFrame(rafQueue, nextRafId, x, y)
          /\ rafIdRef' = nextRafId
          /\ nextRafId' = nextRafId + 1
  /\ lastOp' = "move"
  /\ applied' = <<>>
  /\ tickMoves' = 0
  /\ tickSample' = NoSample
  /\ moveCount' = moveCount + 1
  /\ lastSample' = [clientX |-> x, clientY |-> y]
  /\ UNCHANGED <<phase, cardRef, tilt, world, ticksSinceMutation>>

\* handleMouseMove that keeps the pending frame and drops the new sample
handleMouseMove_keepFirst(x, y) ==
  /\ phase = "mounted" /\ pointerOver /\ Inside(x, y, rect)
  /\ nextRafId <= MaxRafRequests
  /\ IF ~cardRef \/ rafIdRef # 0
     THEN UNCHANGED raf
     ELSE /\ rafQueue' = requestAnimationFrame(rafQueue, nextRafId, x, y)
          /\ rafIdRef' = nextRafId
          /\ nextRafId' = nextRafId + 1
  /\ lastOp' = "move"
  /\ applied' = <<>>
  /\ tickMoves' = 0
  /\ tickSample' = NoSample
  /\ moveCount' = moveCount + 1
  /\ lastSample' = [clientX |-> x, clientY |-> y]
  /\ UNCHANGED <<phase, cardRef, tilt, world, ticksSinceMutation>>

handleMouseMove(x, y) ==
  /\ phase = "mounted" /\ pointerOver /\ Inside(x, y, rect)
  /\ nextRafId <= MaxRafRequests
  /\ IF ~cardRef
     THEN UNCHANGED raf
     ELSE /\ rafQueue' = requestAnimationFrame(
                            IF rafIdRef # 0 THEN cancelAnimationFrame(rafQueue, rafIdRef)
                                            ELSE rafQueue,
                            nextRafId, x, y)
          /\ rafIdRef' = nextRafId
          /\ nextRafId' = nextRafId + 1
  /\ lastOp' = "move"
  /\ applied' = <<>>
  /\ tickMoves' = 0
  /\ tickSample' = NoSample
  /\ moveCount' = moveCount + 1
  /\ lastSample' = [clientX |-> x, clientY |-> y]
  /\ UNCHANGED <<phase, cardRef, tilt, world, ticksSinceMutation>>

\* handleMouseLeave that also resets the glow position
handleMouseLeave_resetGlow ==
  /\ phase = "mounted" /\ pointerOver
  /\ pointerOver' = FALSE
  /\ isHovered' = FALSE
  /\ rotateX' = Int2Num(RestX)
  /\ rotateY' = Int2Num(RestY)
  /\ rotateZ' = Int2Num(RestZ)
  /\ glowX' = Int2Num(InitialGlow)
  /\ glowY' = Int2Num(InitialGlow)
  /\ lastOp' = "leave"
  /\ applied' = <<>>
  /\ tickMoves' = 0
  /\ tickSample' = NoSample
  /\ UNCHANGED <<phase, cardRef, raf, perfSettings, rect,
                 ticksSinceMutation, moveCount, lastSample>>

handleMouseLeave ==
  /\ phase = "mounted" /\ pointerOver
  /\ pointerOver' = FALSE
  /\ isHovered' = FALSE
  /\ rotateX' = Int2Num(RestX)
  /\ rotateY' = Int2Num(RestY)
  /\ rotateZ' = Int2Num(RestZ)
  /\ lastOp' = "leave"
  /\ applied' = <<>>
  /\ tickMoves' = 0
  /\ tickSample' = NoSample
  /\ UNCHANGED <<phase, cardRef, raf, glowX, glowY, perfSettings, rect,
                 ticksSinceMutation, moveCount, lastSample>>

\* unmount without the effect cleanup
Unmount_noCleanup ==
  /\ phase = "mounted"
  /\ phase' = "disposed"
  /\ cardRef' = FALSE
  /\ pointerOver' = FALSE
  /\ lastOp' = "unmount"
  /\ applied' = <<>>
  /\ tickMoves' = 0
  /\ tickSample' = NoSample
  /\ UNCHANGED <<raf, tilt, perfSettings, rect,
                 ticksSinceMutation, moveCount, lastSample>>

\* unmount: React detaches the ref, then runs the effect cleanup
Unmount ==
  /\ phase = "mounted"
  /\ phase' = "disposed"
  /\ cardRef' = FALSE
  /\ pointerOver' = FALSE
  /\ rafQueue' = IF rafIdRef # 0 THEN cancelAnimationFrame(rafQueue, rafIdRef) ELSE rafQueue
  /\ lastOp' = "unmount"
  /\ applied' = <<>>
  /\ tickMoves' = 0
  /\ tickSample' = NoSample
  /\ UNCHANGED <<rafIdRef, nextRafId, tilt, perfSettings, rect,
                 ticksSinceMutation, moveCount, lastSample>>

\* one display refresh: the browser runs every requested frame callback
FrameTick ==
  LET s0 == [cardRef |-> cardRef, rotateX |-> rotateX, rotateY |-> rotateY,
             rotateZ |-> rotateZ, glowX |-> glowX, glowY |-> glowY,
             rafIdRef |-> rafIdRef, applied |-> <<>>]
      s1 == runFrame(s0, rafQueue)
      elapsed == IF ticksSinceMutation = -1 THEN -1
                 ELSE IF ticksSinceMutation < MaxGapTicks THEN ticksSinceMutation + 1
                 ELSE MaxGapTicks
  IN  /\ rafQueue' = {}
      /\ rotateX' = s1.rotateX
      /\ rotateY' = s1.rotateY
      /\ rotateZ' = s1.rotateZ
      /\ glowX' = s1.glowX
      /\ glowY' = s1.glowY
      /\ rafIdRef' = s1.rafIdRef
      /\ applied' = s1.applied
      /\ ticksSinceMutation' = IF s1.applied # <<>> THEN 0 ELSE elapsed
      /\ lastOp' = "tick"
      /\ tickMoves' = moveCount
      /\ tickSample' = lastSample
      /\ moveCount' = 0
      /\ lastSample' = NoSample
      /\ UNCHANGED <<phase, cardRef, nextRafId, isHovered, world>>

\* the page layout changes the box of the wrapper
LayoutShift ==
  /\ phase = "mounted"
  /\ \E r \in Rects \ {rect} : rect' = r
  /\ lastOp' = "layout"
  /\ applied' = <<>>
  /\ tickMoves' = 0
  /\ tickSample' = NoSample
  /\ UNCHANGED <<phase, cardRef, raf, tilt, perfSettings, pointerOver,
                 ticksSinceMutation, moveCount, lastSample>>

\* the transition of the wrapper with the two durations exchanged
transitionStyle_swapped(settings, hovered) ==
  IF settings.enableTransitions
  THEN IF hovered THEN "transform 0.6s cubic-bezier(0.23, 1, 0.32, 1)"
                  ELSE "transform 0.3s cubic-bezier(0.23, 1, 0.32, 1)"
  ELSE "none"

\* WebkitTransition / transition of the wrapper's inline style
transitionStyle(settings, hovered) ==
  IF settings.enableTransitions
  THEN IF hovered THEN "transform 0.3s cubic-bezier(0.23, 1, 0.32, 1)"
                  ELSE "transform 0.6s cubic-bezier(0.23, 1, 0.32, 1)"
  ELSE "none"

\* what the component renders from the profile and the hover state
render ==
  [svgFilter |-> perfSettings.enableComplexFilters,
   WebkitTransition |-> transitionStyle(perfSettings, isHovered),
   transition |-> transitionStyle(perfSettings, isHovered),
   willChange |-> IF isHovered THEN "transform" ELSE "auto"]

TypeOK ==
  /\ phase \in {"mounted", "disposed"}
  /\ cardRef \in BOOLEAN
  /\ rafIdRef \in 0..MaxRafRequests
  /\ isHovered \in BOOLEAN
  /\ rect \in Rects
  /\ ticksSinceMutation \in -1..MaxGapTicks

\* ------------------------------------------------------------------------
\* Calls of getPerformanceSettings() in one runtime
\* ------------------------------------------------------------------------
\* calls of the classifier made on one snapshot
MaxCalls == 2

VARIABLES
  classifier      \* [runtime, calls, result, previous]: the snapshot, the number of
                  \* calls made, what the last call and the call before it gave

NoSettings == [enableComplexFilters |-> FALSE, enableBlur |-> FALSE,
               enableTransitions |-> FALSE, throttleDelay |-> 0, maxRotation |-> 0]

NotCalled == [outcome |-> "not called", settings |-> NoSettings]

\* one call: the settings, or the TypeError of prefersReducedMotion
callGetPerformanceSettings(env) ==
  IF matchMediaThrows(env)
  THEN [outcome |-> "TypeError", settings |-> NoSettings]
  ELSE [outcome |-> "returned", settings |-> getPerformanceSettings(env)]

ClassifierIdle ==
  classifier = [runtime |-> CHOOSE r \in Envs : TRUE, calls |-> 0,
                result |-> NotCalled, previous |-> NotCalled]

ClassifierInit ==
  \E r \in Runtimes :
    classifier = [runtime |-> r, calls |-> 0, result |-> NotCalled, previous |-> NotCalled]

Classify ==
  /\ classifier.calls < MaxCalls
  /\ classifier' = [classifier EXCEPT !.calls = @ + 1,
                                      !.result = callGetPerformanceSettings(classifier.runtime),
                                      !.previous = classifier.result]

\* ------------------------------------------------------------------------
\* The profile of a card while its runtime changes
\* ------------------------------------------------------------------------
VARIABLES
  environment     \* the runtime as it is now (viewport, touch, motion preference)

\* useMemo that evaluates its function again on every render
useMemoPerfSettings_recomputed(cached, env) == getPerformanceSettings(env)

\* useMemo(() => getPerformanceSettings(), []): with the empty dependency list
\* a re-render gets the value of the first render
useMemoPerfSettings(cached, env) == cached

EnvironmentIdle == environment = CHOOSE r \in Envs : TRUE

\* the environments the runtime of a mounted card moves between: a phone-sized
\* and a desktop-sized viewport, with or without touch and reduced motion
ProfileEnvs == {r \in Envs : r.maxTouchPoints = 0 /\ r.innerWidth \in {400, 1440}}

\* the pointer positions used while the runtime changes: centre and right edge
ProfileSamples == {e \in Samples : e.clientY = 100}

\* the card was mounted in this environment
ProfileInit ==
  /\ environment \in ProfileEnvs
  /\ perfSettings = getPerformanceSettings(environment)
  /\ rect.left = 0

\* the window is resized, a touch screen attached, the motion preference toggled
EnvironmentChange ==
  /\ \E r \in ProfileEnvs \ {environment} : environment' = r
  /\ lastOp' = "environment"
  /\ applied' = <<>>
  /\ tickMoves' = 0
  /\ tickSample' = NoSample
  /\ UNCHANGED <<phase, cardRef, raf, tilt, world, ticksSinceMutation, moveCount, lastSample>>

\* a render of the mounted component (after a state change or of its parent)
Rerender ==
  /\ phase = "mounted"
  /\ perfSettings' = useMemoPerfSettings(perfSettings, environment)
  /\ lastOp' = "render"
  /\ applied' = <<>>
  /\ tickMoves' = 0
  /\ tickSample' = NoSample
  /\ UNCHANGED <<phase, cardRef, raf, tilt, rect, pointerOver, ticksSinceMutation,
                 moveCount, lastSample, environment>>

\* ------------------------------------------------------------------------
\* The earlier ElectricBorderCard: no frame scheduling, no profile
\* ------------------------------------------------------------------------
VARIABLES
  earlierCard     \* [rotateX, rotateY, rotateZ, glowX, glowY, isHovered] of the
                  \* earlier card, and glowBefore: its glow before the last handler

\* "const maxRotation = 10" of the earlier handleMouseMove
EarlierMaxRotation == 10

EarlierInit ==
  earlierCard = [rotateX |-> Int2Num(RestX), rotateY |-> Int2Num(RestY),
                 rotateZ |-> Int2Num(RestZ), glowX |-> Int2Num(InitialGlow),
                 glowY |-> Int2Num(InitialGlow), isHovered |-> FALSE,
                 glowBefore |-> <<Int2Num(InitialGlow), Int2Num(InitialGlow)>>]

\* the earlier handleMouseMove: measures and writes the state in the handler
earlier_handleMouseMove(c, x, y) ==
  IF ~cardRef THEN c
  ELSE LET maxRotation == Int2Num(EarlierMaxRotation)
           normalizedX == normalized(x, rect.left, rect.width)
           normalizedY == normalized(y, rect.top, rect.height)
           rotationY == Mul(normalizedX, maxRotation)
           rotationX == Mul(Neg(normalizedY), maxRotation)
       IN  [c EXCEPT !.rotateX = Add(Int2Num(RestX), rotationX),
                     !.rotateY = Add(Int2Num(RestY), rotationY),
                     !.rotateZ = Add(Int2Num(RestZ), Mul(normalizedX, Int2Num(RollWeight))),
                     !.glowX = glowPos(x, rect.left, rect.width),
                     !.glowY = glowPos(y, rect.top, rect.height)]

earlier_handleMouseEnter(c) == [c EXCEPT !.isHovered = TRUE]

\* the earlier handleMouseLeave without the two glow setters
earlier_handleMouseLeave_keepGlow(c) ==
  [c EXCEPT !.isHovered = FALSE,
            !.rotateX = Int2Num(RestX),
            !.rotateY = Int2Num(RestY),
            !.rotateZ = Int2Num(RestZ)]

earlier_handleMouseLeave(c) ==
  [c EXCEPT !.isHovered = FALSE,
            !.rotateX = Int2Num(RestX),
            !.rotateY = Int2Num(RestY),
            !.rotateZ = Int2Num(RestZ),
            !.glowX = Int2Num(InitialGlow),
            !.glowY = Int2Num(InitialGlow)]

\* the glow of the earlier card as a handler finds it
earlierGlow == <<earlierCard.glowX, earlierCard.glowY>>

\* the same pointer event is delivered to the earlier and to the current card
BothEnter ==
  /\ \E e \in Samples : handleMouseEnter(e.clientX, e.clientY)
  /\ earlierCard' = [earlier_handleMouseEnter(earlierCard) EXCEPT !.glowBefore = earlierGlow]

BothMove ==
  \E e \in Samples :
    /\ handleMouseMove(e.clientX, e.clientY)
    /\ earlierCard' = [earlier_handleMouseMove(earlierCard, e.clientX, e.clientY)
                         EXCEPT !.glowBefore = earlierGlow]

BothLeave ==
  /\ handleMouseLeave
  /\ earlierCard' = [earlier_handleMouseLeave(earlierCard) EXCEPT !.glowBefore = earlierGlow]

\* ------------------------------------------------------------------------
\* throttleRAF(callback)
\* ------------------------------------------------------------------------
\* calls of the throttled function in one run
MaxThrottledCalls == 4

\* the argument lists the throttled function is called with
ArgLists == {<<"a">>, <<"b">>, <<"c">>}

\* lastArgs = null
NoArgs == <<>>

VARIABLES
  throttle        \* the closure of one throttleRAF(callback): rafId (0 is null),
                  \* lastArgs, the frames the browser holds for it, and the history
                  \* of the calls: op, calls, sinceFrame, served, ran, requested

ThrottleInit ==
  throttle = [rafId |-> 0, lastArgs |-> NoArgs, queue |-> {}, nextId |-> 1,
              op |-> "created", calls |-> 0, sinceFrame |-> <<>>, served |-> <<>>,
              ran |-> <<>>, requested |-> 0]

\* a throttled function that keeps the arguments of the first call of a frame
throttled_keepFirst(t, args) ==
  IF t.rafId = 0
  THEN [t EXCEPT !.lastArgs = args, !.rafId = t.nextId, !.queue = @ \cup {t.nextId},
                 !.nextId = @ + 1, !.requested = @ + 1]
  ELSE t

\* const throttled = (...args) => { lastArgs = args; if (rafId === null) ... }
throttled(t, args) ==
  IF t.rafId = 0
  THEN [t EXCEPT !.lastArgs = args, !.rafId = t.nextId, !.queue = @ \cup {t.nextId},
                 !.nextId = @ + 1, !.requested = @ + 1]
  ELSE [t EXCEPT !.lastArgs = args]

\* the closure handed to requestAnimationFrame
throttleFrame(t) ==
  [t EXCEPT !.ran = IF t.lastArgs # NoArgs THEN Append(@, t.lastArgs) ELSE @,
            !.rafId = 0,
            !.lastArgs = NoArgs]

RECURSIVE runThrottleFrames(_, _)
runThrottleFrames(t, ids) ==
  IF ids = {} THEN t
  ELSE LET first == CHOOSE i \in ids : \A o \in ids : i <= o
       IN  runThrottleFrames(throttleFrame(t), ids \ {first})

ThrottledCall ==
  /\ throttle.calls < MaxThrottledCalls
  /\ \E args \in ArgLists :
       throttle' = [throttled(throttle, args) EXCEPT
                      !.op = "call", !.calls = @ + 1,
                      !.sinceFrame = Append(@, args),
                      !.served = <<>>, !.ran = <<>>]

\* one display refresh
ThrottleTick ==
  throttle' = [runThrottleFrames([throttle EXCEPT !.ran = <<>>], throttle.queue) EXCEPT
                 !.queue = {}, !.op = "frame", !.served = throttle.sinceFrame,
                 !.sinceFrame = <<>>, !.requested = 0]

\* ------------------------------------------------------------------------
\* Home: scroll progress of the page
\* ------------------------------------------------------------------------
\* scroll events handled in one run
MaxScrollRequests == 3

ScrollYs == {0, 250, 500, 2000}

InnerHeights == {0, 500, 1000}

VARIABLES
  page            \* Home: scrollProgress, rafIdRef (0 is null), the frames the browser
                  \* holds, window.scrollY / innerHeight, mounted, and the history:
                  \* op, sets (setScrollProgress calls of the last step)

PageInit ==
  \E h \in InnerHeights :
    page = [mounted |-> TRUE, scrollProgress |-> Int2Num(0), rafIdRef |-> 0,
            queue |-> {}, nextId |-> 1, scrollY |-> 0, innerHeight |-> h,
            op |-> "mount", sets |-> 0]

\* Math.min of two numbers
MathMin(a, b) == IF IsNaN(a) \/ IsNaN(b) THEN NaN ELSE IF Leq(a, b) THEN a ELSE b

\* handleScroll without the cancellation of the pending frame
handleScroll_noCancel(p) ==
  [p EXCEPT !.queue = @ \cup {p.nextId}, !.rafIdRef = p.nextId, !.nextId = @ + 1]

handleScroll(p) ==
  [p EXCEPT !.queue = (IF p.rafIdRef # 0 THEN @ \ {p.rafIdRef} ELSE @) \cup {p.nextId},
            !.rafIdRef = p.nextId,
            !.nextId = @ + 1]

\* the frame callback of handleScroll
scrollFrame(p) ==
  LET scrollPosition == Int2Num(p.scrollY)
      windowHeight == Int2Num(p.innerHeight)
      progress == MathMin(Div(scrollPosition, windowHeight), Int2Num(1))
  IN  [p EXCEPT !.scrollProgress = progress, !.rafIdRef = 0, !.sets = @ + 1]

RECURSIVE runScrollFrames(_, _)
runScrollFrames(p, ids) ==
  IF ids = {} THEN p
  ELSE LET first == CHOOSE i \in ids : \A o \in ids : i <= o
       IN  runScrollFrames(scrollFrame(p), ids \ {first})

\* the document is scrolled; the scroll event reaches handleScroll while it is registered
Scroll ==
  /\ page.nextId <= MaxScrollRequests
  /\ \E y \in ScrollYs \ {page.scrollY} :
       LET p == [page EXCEPT !.scrollY = y, !.op = "scroll", !.sets = 0]
       IN  page' = IF page.mounted THEN handleScroll(p) ELSE p

\* the window is resized
Resize ==
  \E h \in InnerHeights \ {page.innerHeight} :
    page' = [page EXCEPT !.innerHeight = h, !.op = "resize", !.sets = 0]

\* one display refresh
PageTick ==
  page' = [runScrollFrames([page EXCEPT !.sets = 0], page.queue) EXCEPT
             !.queue = {}, !.op = "frame"]

\* the effect cleanup without the cancellation
PageUnmount_noCancel ==
  /\ page.mounted
  /\ page' = [page EXCEPT !.mounted = FALSE, !.op = "unmount", !.sets = 0]

\* the effect cleanup: removeEventListener, then cancel the pending frame
PageUnmount ==
  /\ page.mounted
  /\ page' = [page EXCEPT !.mounted = FALSE, !.op = "unmount", !.sets = 0,
                          !.queue = IF page.rafIdRef # 0 THEN @ \ {page.rafIdRef} ELSE @]

\* ------------------------------------------------------------------------
\* lib/themes
\* ------------------------------------------------------------------------
tokyoNight ==
  [id |-> "tokyo-night", name |-> "Tokyo Night", type |-> "dark",
   colors |-> [background |-> "#1a1b26",
               foreground |-> "#c0caf5",
               card |-> "#24283b",
               cardForeground |-> "#c0caf5",
               border |-> "#414868",
               accent |-> "#7aa2f7",
               accentForeground |-> "#1a1b26",
               muted |-> "#32344a",
               mutedForeground |-> "#9aa5ce",
               electricBorder |-> "#7aa2f7",
               electricLight |-> "#9ece6a",
               gradient |-> "rgba(36, 40, 59, 0.4)",
               silverBright |-> "#c0caf5",
               silverMedium |-> "#7aa2f7",
               silverDark |-> "#565f89",
               iconColors |-> <<"#7aa2f7", "#bb9af7", "#7dcfff", "#ff9e64", "#e0af68", "#9ece6a">>,
               nameColor |-> "#7dcfff",
               roleColor |-> "#7dcfff"]]

nord ==
  [id |-> "nord", name |-> "Nord", type |-> "dark",
   colors |-> [background |-> "#2e3440",
               foreground |-> "#eceff4",
               card |-> "#3b4252",
               cardForeground |-> "#eceff4",
               border |-> "#4c566a",
               accent |-> "#88c0d0",
               accentForeground |-> "#2e3440",
               muted |-> "#434c5e",
               mutedForeground |-> "#d8dee9",
               electricBorder |-> "#88c0d0",
               electricLight |-> "#8fbcbb",
               gradient |-> "rgba(59, 66, 82, 0.4)",
               silverBright |-> "#eceff4",
               silverMedium |-> "#88c0d0",
               silverDark |-> "#5e81ac",
               iconColors |-> <<"#5e81ac", "#b48ead", "#88c0d0", "#d08770", "#ebcb8b", "#a3be8c">>,
               nameColor |-> "#bf616a",
               roleColor |-> "#bf616a"]]

catppuccin ==
  [id |-> "catppuccin", name |-> "Catppuccin", type |-> "dark",
   colors |-> [background |-> "#1e1e2e",
               foreground |-> "#cdd6f4",
               card |-> "#313244",
               cardForeground |-> "#cdd6f4",
               border |-> "#585b70",
               accent |-> "#89b4fa",
               accentForeground |-> "#1e1e2e",
               muted |-> "#45475a",
               mutedForeground |-> "#bac2de",
               electricBorder |-> "#89b4fa",
               electricLight |-> "#94e2d5",
               gradient |-> "rgba(49, 50, 68, 0.4)",
               silverBright |-> "#cdd6f4",
               silverMedium |-> "#89b4fa",
               silverDark |-> "#74c7ec",
               iconColors |-> <<"#89b4fa", "#cba6f7", "#89dceb", "#fab387", "#f9e2af", "#94e2d5">>,
               nameColor |-> "#89dceb",
               roleColor |-> "#89dceb"]]

oneDark ==
  [id |-> "one-dark", name |-> "One Dark", type |-> "dark",
   colors |-> [background |-> "#282c34",
               foreground |-> "#abb2bf",
               card |-> "#2c313a",
               cardForeground |-> "#abb2bf",
               border |-> "#4b5263",
               accent |-> "#61afef",
               accentForeground |-> "#282c34",
               muted |-> "#3e4451",
               mutedForeground |-> "#5c6370",
               electricBorder |-> "#61afef",
               electricLight |-> "#98c379",
               gradient |-> "rgba(44, 49, 58, 0.4)",
               silverBright |-> "#abb2bf",
               silverMedium |-> "#61afef",
               silverDark |-> "#56b6c2",
               iconColors |-> <<"#61afef", "#c678dd", "#56b6c2", "#d19a66", "#e5c07b", "#98c379">>,
               nameColor |-> "#56b6c2",
               roleColor |-> "#56b6c2"]]

light ==
  [id |-> "light", name |-> "Light", type |-> "light",
   colors |-> [background |-> "#ffffff",
               foreground |-> "#1a1a1a",
               card |-> "#f5f5f5",
               cardForeground |-> "#1a1a1a",
               border |-> "#e5e5e5",
               accent |-> "#3b82f6",
               accentForeground |-> "#ffffff",
               muted |-> "#f3f4f6",
               mutedForeground |-> "#6b7280",
               electricBorder |-> "#1a1a1a",
               electricLight |-> "#1a1a1a",
               gradient |-> "rgba(26, 26, 26, 0.2)",
               silverBright |-> "#e5e7eb",
               silverMedium |-> "#9ca3af",
               silverDark |-> "#6b7280",
               iconColors |-> <<"#1a1a1a", "#1a1a1a", "#1a1a1a", "#1a1a1a", "#1a1a1a", "#1a1a1a">>,
               nameColor |-> "#1a1a1a",
               roleColor |-> "#1a1a1a"]]

dark ==
  [id |-> "dark", name |-> "Dark", type |-> "dark",
   colors |-> [background |-> "#0a0a0a",
               foreground |-> "#ededed",
               card |-> "#171717",
               cardForeground |-> "#ededed",
               border |-> "#2a2a2a",
               accent |-> "#ffffff",
               accentForeground |-> "#0a0a0a",
               muted |-> "#1f1f1f",
               mutedForeground |-> "#a3a3a3",
               electricBorder |-> "#c0c0c0",
               electricLight |-> "#e8e8e8",
               gradient |-> "rgba(192, 192, 192, 0.3)",
               silverBright |-> "#e8e8e8",
               silverMedium |-> "#a8a8a8",
               silverDark |-> "#808080",
               iconColors |-> <<"#e8e8e8", "#e8e8e8", "#e8e8e8", "#e8e8e8", "#e8e8e8", "#e8e8e8">>,
               nameColor |-> "#e8e8e8",
               roleColor |-> "#e8e8e8"]]

\* export const themes: Theme[]
themes == <<light, dark, tokyoNight, nord, catppuccin, oneDark>>


\* themes.find(...) gave undefined
NoTheme == [id |-> "", name |-> "", type |-> ""]

ThemeIds == {themes[i].id : i \in 1..Len(themes)}

\* export const getTheme = (id) => themes.find((theme) => theme.id === id)
getTheme(id) ==
  LET found == SelectSeq(themes, LAMBDA t : t.id = id)
  IN  IF found = <<>> THEN NoTheme ELSE found[1]

getDefaultTheme == dark

\* a toggle that takes the last theme of the opposite type
getNextThemeByType_lastOfType(currentId) ==
  LET current == getTheme(currentId)
      oppositeType == IF current.type = "light" THEN "dark" ELSE "light"
      themesOfType == SelectSeq(themes, LAMBDA t : t.type = oppositeType)
  IN  IF current = NoTheme THEN getDefaultTheme
      ELSE IF themesOfType = <<>> THEN getDefaultTheme
      ELSE themesOfType[Len(themesOfType)]

getNextThemeByType(currentId) ==
  LET current == getTheme(currentId)
      oppositeType == IF current.type = "light" THEN "dark" ELSE "light"
      themesOfType == SelectSeq(themes, LAMBDA t : t.type = oppositeType)
  IN  IF current = NoTheme THEN getDefaultTheme
      ELSE IF themesOfType = <<>> THEN getDefaultTheme
      ELSE themesOfType[1]

\* ------------------------------------------------------------------------
\* ThemeButton
\* ------------------------------------------------------------------------
\* setTimeout calls of the hover handler in one run
MaxHoverTimers == 3

\* clock steps in which the delay of a timer elapses
DelaySteps == 2

\* setTimeout(..., 600)
HoverDelay == 600

\* what useTheme().theme can hold: a registered id, a stored id that is not
\* registered, or undefined ("")
ThemeValues == ThemeIds \cup {"sepia", ""}

VARIABLES
  theme,          \* useTheme().theme; "" is undefined
  button          \* ThemeButton: showDropdown, hoverTimeout (0 is null), the timers
                  \* the browser holds for it, pointerInside, and the history: op,
                  \* from (theme before the last handler), arg (the id handed to
                  \* it), stayed (clock steps the pointer has been inside, -1 outside)

ButtonInit ==
  button = [showDropdown |-> FALSE, hoverTimeout |-> 0, timers |-> {}, nextTimerId |-> 1,
            pointerInside |-> FALSE, op |-> "mount", from |-> "", arg |-> "",
            stayed |-> -1]

\* handleMouseEnter
button_handleMouseEnter(b) ==
  [b EXCEPT !.timers = @ \cup {[id |-> b.nextTimerId, delay |-> HoverDelay, left |-> DelaySteps]},
            !.hoverTimeout = b.nextTimerId,
            !.nextTimerId = @ + 1]

\* handleMouseLeave that forgets the timer without clearing it
button_handleMouseLeave_noClear(b) ==
  IF b.hoverTimeout # 0 THEN [b EXCEPT !.hoverTimeout = 0] ELSE b

\* handleMouseLeave
button_handleMouseLeave(b) ==
  IF b.hoverTimeout # 0
  THEN [b EXCEPT !.timers = {t \in @ : t.id # b.hoverTimeout}, !.hoverTimeout = 0]
  ELSE b

\* handleClickOutside; inside: dropdownRef.current.contains(event.target)
handleClickOutside(b, inside) ==
  IF ~inside THEN [b EXCEPT !.showDropdown = FALSE] ELSE b

\* handleKeyDown
handleKeyDown(b, key) ==
  IF ~b.showDropdown THEN b
  ELSE IF key = "Escape" THEN [b EXCEPT !.showDropdown = FALSE]
  ELSE b

\* handleThemeSelect that only closes the dropdown
handleThemeSelect_closeOnly(b, t, themeId) ==
  <<[b EXCEPT !.showDropdown = FALSE], t>>

\* handleThemeSelect: the button and the theme after it
handleThemeSelect(b, t, themeId) ==
  <<[b EXCEPT !.showDropdown = FALSE], themeId>>

\* handleClick: the theme after it (mounted is true once the button is rendered)
handleClick(t) == IF t = "" THEN t ELSE getNextThemeByType(t).id

PointerEnter ==
  /\ ~button.pointerInside
  /\ button.nextTimerId <= MaxHoverTimers
  /\ button' = [button_handleMouseEnter(button) EXCEPT
                  !.pointerInside = TRUE, !.op = "enter", !.from = theme, !.arg = "", !.stayed = 0]
  /\ UNCHANGED theme

PointerLeave ==
  /\ button.pointerInside
  /\ button' = [button_handleMouseLeave(button) EXCEPT
                  !.pointerInside = FALSE, !.op = "leave", !.from = theme, !.arg = "", !.stayed = -1]
  /\ UNCHANGED theme

\* the clock advances by one step; a timer that is due fires first
ClockStep ==
  /\ \A t \in button.timers : t.left > 0
  /\ button' = [button EXCEPT
                  !.timers = {[t EXCEPT !.left = @ - 1] : t \in @},
                  !.stayed = IF @ = -1 THEN -1 ELSE IF @ < DelaySteps THEN @ + 1 ELSE @,
                  !.op = "clock", !.from = theme, !.arg = ""]
  /\ UNCHANGED theme

\* the callback of the hover timer
HoverTimerFires ==
  \E t \in button.timers :
    /\ t.left = 0
    /\ button' = [button EXCEPT !.timers = @ \ {t}, !.showDropdown = TRUE,
                                !.op = "timer", !.from = theme, !.arg = ""]
    /\ UNCHANGED theme

\* a mousedown in the document while the listener is registered
MouseDown ==
  /\ button.showDropdown
  /\ \E inside \in BOOLEAN :
       button' = [handleClickOutside(button, inside) EXCEPT
                    !.op = IF inside THEN "mousedown inside" ELSE "mousedown outside",
                    !.from = theme, !.arg = ""]
  /\ UNCHANGED theme

KeyDown ==
  /\ \E key \in {"Escape", "Enter"} :
       button' = [handleKeyDown(button, key) EXCEPT !.op = key, !.from = theme, !.arg = ""]
  /\ UNCHANGED theme

\* a click on an entry of the open dropdown
ThemeSelect ==
  /\ button.showDropdown
  /\ \E id \in ThemeIds :
       LET after == handleThemeSelect(button, theme, id)
       IN  /\ button' = [after[1] EXCEPT !.op = "select", !.from = theme, !.arg = id]
           /\ theme' = after[2]

\* a click on the palette button
ButtonClick ==
  /\ theme' = handleClick(theme)
  /\ button' = [button EXCEPT !.op = "click", !.from = theme, !.arg = ""]

ButtonIdle == ButtonInit /\ theme = getDefaultTheme.id

\* ------------------------------------------------------------------------
\* AutoThemeDetector that looks at the manual override
\* ------------------------------------------------------------------------
\* what localStorage.getItem('manual-theme-override') returns: null when the
\* key is absent, else the string stored under it
StoredItems == {[isNull |-> TRUE, value |-> ""],
                [isNull |-> FALSE, value |-> ""],
                [isNull |-> FALSE, value |-> "true"]}

\* the truth value an if statement gives the item
ToBoolean(item) == ~item.isNull /\ item.value # ""

\* the dependency list of an effect that has not run yet
NotRun == "not run"

VARIABLES
  detector        \* AutoThemeDetector: mounted, listening (its change listener is on
                  \* the media query), deps (theme of the last effect run), storage
                  \* (the item under the override key), systemDark, hasMatchMedia,
                  \* and the history: op, setCalls (setTheme calls of the last
                  \* step), picked (the theme the user picked last, "" none)

DetectorInit ==
  \E item \in StoredItems, prefersDark \in BOOLEAN, mm \in BOOLEAN :
    detector = [mounted |-> TRUE, listening |-> FALSE, deps |-> NotRun, storage |-> item,
                systemDark |-> prefersDark, hasMatchMedia |-> mm, op |-> "mount", setCalls |-> 0,
                picked |-> ""]

\* updateTheme(e): the detector and the theme after it
updateTheme(d, t, matches) ==
  IF ToBoolean(d.storage) THEN <<d, t>>
  ELSE <<[d EXCEPT !.setCalls = @ + 1], IF matches THEN "dark" ELSE "light">>

\* the effect body, after the cleanup of the previous run
detectorEffect(d, t) ==
  LET d0 == [d EXCEPT !.listening = FALSE, !.deps = t]
      hasManualOverride == d0.storage
  IN  IF ToBoolean(hasManualOverride) THEN <<d0, t>>
      ELSE IF ~d0.hasMatchMedia THEN <<d0, t>>
      ELSE LET after == updateTheme(d0, t, d0.systemDark)
           IN  <<[after[1] EXCEPT !.listening = TRUE], after[2]>>

\* the effect runs after the mount and after every render with another theme
DetectorEffect ==
  /\ detector.mounted /\ detector.deps # theme
  /\ LET after == detectorEffect([detector EXCEPT !.setCalls = 0, !.op = "effect"], theme)
     IN  detector' = after[1] /\ theme' = after[2]
  /\ UNCHANGED button

\* the system colour scheme changes; the media query tells its listeners
SystemChange ==
  /\ detector.deps = theme \/ ~detector.mounted
  /\ LET d == [detector EXCEPT !.systemDark = ~@, !.setCalls = 0, !.op = "change"]
         after == IF d.listening THEN updateTheme(d, theme, d.systemDark) ELSE <<d, theme>>
     IN  detector' = after[1] /\ theme' = after[2]
  /\ UNCHANGED button

\* something outside the component writes or removes the override key
StorageWrite ==
  /\ detector.deps = theme \/ ~detector.mounted
  /\ \E item \in StoredItems \ {detector.storage} :
       detector' = [detector EXCEPT !.storage = item, !.setCalls = 0, !.op = "storage"]
  /\ UNCHANGED <<theme, button>>

\* the user picks a theme in the dropdown or with the toggle
UserPick ==
  /\ detector.deps = theme \/ ~detector.mounted
  /\ ThemeSelect \/ ButtonClick
  /\ detector' = [detector EXCEPT !.picked = theme', !.setCalls = 0, !.op = "pick"]

\* the dropdown is opened for the user
OpenDropdown ==
  /\ ~button.showDropdown
  /\ button' = [button EXCEPT !.showDropdown = TRUE, !.op = "timer", !.from = theme,
                              !.arg = ""]
  /\ UNCHANGED <<theme, detector>>

\* unmount: the cleanup of the last effect run
DetectorUnmount ==
  /\ detector.mounted /\ detector.deps = theme
  /\ detector' = [detector EXCEPT !.mounted = FALSE, !.listening = FALSE, !.setCalls = 0,
                                  !.op = "unmount"]
  /\ UNCHANGED <<theme, button>>

DetectorIdle ==
  detector = [mounted |-> FALSE, listening |-> FALSE, deps |-> NotRun,
              storage |-> [isNull |-> TRUE, value |-> ""], systemDark |-> TRUE,
              hasMatchMedia |-> TRUE, op |-> "mount", setCalls |-> 0, picked |-> ""]

\* ------------------------------------------------------------------------
\* ThemeApplier
\* ------------------------------------------------------------------------
\* attribute writes the observer has not been told about yet
MaxMutationRecords == 2

\* `--icon-color-${index + 1}`
IconProperties == <<"--icon-color-1", "--icon-color-2", "--icon-color-3",
                    "--icon-color-4", "--icon-color-5", "--icon-color-6">>

\* the custom properties applyTheme writes
ThemeProperties ==
  {"--background", "--foreground", "--card", "--card-foreground", "--border", "--accent",
   "--accent-foreground", "--muted", "--muted-foreground", "--electric-border-color",
   "--electric-light-color", "--gradient-color", "--silver-bright", "--silver-medium",
   "--silver-dark", "--name-color", "--role-color"}
    \cup {IconProperties[i] : i \in 1..Len(IconProperties)}

VARIABLES
  applier         \* ThemeApplier and the document root: mounted (the observer is
                  \* connected), dataTheme ("" is no attribute), style (custom property
                  \* -> value, "" unset), records (mutation records not delivered), op

\* colors.iconColors.forEach((color, index) => root.style.setProperty(...))
setIconColors(style, iconColors) ==
  [p \in DOMAIN style |->
     IF \E i \in 1..Len(iconColors) : i <= Len(IconProperties) /\ IconProperties[i] = p
     THEN iconColors[CHOOSE i \in 1..Len(iconColors) : IconProperties[i] = p]
     ELSE style[p]]

\* applyTheme that leaves the icon colours alone
applyTheme_noIcons(style, themeId) ==
  LET found == getTheme(themeId)
  IN  IF found = NoTheme THEN style
      ELSE [style EXCEPT !["--background"] = found.colors.background,
                         !["--foreground"] = found.colors.foreground]

applyTheme(style, themeId) ==
  LET found == getTheme(themeId)
  IN  IF found = NoTheme THEN style
      ELSE LET colors == found.colors
               named == [style EXCEPT
                           !["--background"] = colors.background,
                           !["--foreground"] = colors.foreground,
                           !["--card"] = colors.card,
                           !["--card-foreground"] = colors.cardForeground,
                           !["--border"] = colors.border,
                           !["--accent"] = colors.accent,
                           !["--accent-foreground"] = colors.accentForeground,
                           !["--muted"] = colors.muted,
                           !["--muted-foreground"] = colors.mutedForeground,
                           !["--electric-border-color"] = colors.electricBorder,
                           !["--electric-light-color"] = colors.electricLight,
                           !["--gradient-color"] = colors.gradient,
                           !["--silver-bright"] = colors.silverBright,
                           !["--silver-medium"] = colors.silverMedium,
                           !["--silver-dark"] = colors.silverDark]
               icons == setIconColors(named, colors.iconColors)
           IN  [icons EXCEPT !["--name-color"] = colors.nameColor,
                             !["--role-color"] = colors.roleColor]

\* document.documentElement.getAttribute('data-theme') || 'dark'
getCurrentTheme(a) == IF a.dataTheme = "" THEN "dark" ELSE a.dataTheme

ApplierInit ==
  \E id \in ThemeIds \cup {""} :
    applier = [mounted |-> FALSE, dataTheme |-> id,
               style |-> [p \in ThemeProperties |-> ""], records |-> 0, op |-> "render"]

\* the effect: apply the current theme, connect the observer
ApplierMount ==
  /\ ~applier.mounted /\ applier.op = "render"
  /\ applier' = [applier EXCEPT !.mounted = TRUE,
                                !.style = applyTheme(@, getCurrentTheme(applier)),
                                !.op = "mount"]

\* next-themes writes the data-theme attribute of the document root
SetDataTheme ==
  /\ applier.records < MaxMutationRecords
  /\ \E id \in ThemeIds \ {applier.dataTheme} :
       applier' = [applier EXCEPT !.dataTheme = id,
                                  !.records = IF applier.mounted THEN @ + 1 ELSE @,
                                  !.op = IF applier.op = "render" THEN @ ELSE "attribute"]

RECURSIVE deliverRecords(_, _)
\* mutations.forEach(...): every record has attributeName 'data-theme'
deliverRecords(a, n) ==
  IF n = 0 THEN a
  ELSE deliverRecords([a EXCEPT !.style = applyTheme(@, getCurrentTheme(a))], n - 1)

\* the MutationObserver callback
ObserverRuns ==
  /\ applier.mounted /\ applier.records > 0
  /\ applier' = [deliverRecords(applier, applier.records) EXCEPT
                   !.records = 0, !.op = "observer"]

\* the cleanup: observer.disconnect()
ApplierUnmount ==
  /\ applier.mounted
  /\ applier' = [applier EXCEPT !.mounted = FALSE, !.records = 0, !.op = "unmount"]

ApplierIdle ==
  applier = [mounted |-> FALSE, dataTheme |-> "", style |-> [p \in ThemeProperties |-> ""],
             records |-> 0, op |-> "render"]

\* ------------------------------------------------------------------------
\* AutoThemeDetector that follows sunrise and sunset
\* ------------------------------------------------------------------------
\* geolocation requests in one run
MaxGeoRequests == 3

VARIABLES
  sunDetector     \* mounted, interval (the 60 s poll is registered), inFlight
                  \* (geolocation requests not answered), requested, hasGeolocation,
                  \* and the history: op, setCalls (setTheme calls of the last step)

SunInit ==
  \E geo \in BOOLEAN :
    sunDetector = [mounted |-> FALSE, interval |-> FALSE, inFlight |-> 0, requested |-> 0,
                   hasGeolocation |-> geo, op |-> "render", setCalls |-> 0]

\* updateThemeBasedOnTime: isDaytime is now >= sunrise && now <= sunset
updateThemeBasedOnTime(s, isDaytime) ==
  <<[s EXCEPT !.setCalls = @ + 1], IF isDaytime THEN "light" ELSE "dark">>

\* getLocationAndUpdateTheme: the detector and the theme after it
getLocationAndUpdateTheme(s, t, isDaytime) ==
  IF s.hasGeolocation
  THEN <<[s EXCEPT !.inFlight = @ + 1, !.requested = @ + 1], t>>
  ELSE updateThemeBasedOnTime(s, isDaytime)

\* the effect: initial update, then the poll
SunMount ==
  /\ ~sunDetector.mounted /\ sunDetector.op = "render"
  /\ \E isDaytime \in BOOLEAN :
       LET s == [sunDetector EXCEPT !.mounted = TRUE, !.interval = TRUE, !.op = "mount",
                                    !.setCalls = 0]
           after == getLocationAndUpdateTheme(s, theme, isDaytime)
       IN  sunDetector' = after[1] /\ theme' = after[2]

\* the interval fires
SunPoll ==
  /\ sunDetector.interval /\ sunDetector.requested < MaxGeoRequests
  /\ \E isDaytime \in BOOLEAN :
       LET s == [sunDetector EXCEPT !.op = "poll", !.setCalls = 0]
           after == getLocationAndUpdateTheme(s, theme, isDaytime)
       IN  sunDetector' = after[1] /\ theme' = after[2]

\* the success or the error callback of getCurrentPosition
GeoAnswer ==
  /\ sunDetector.inFlight > 0
  /\ \E isDaytime \in BOOLEAN, kind \in {"success", "error"} :
       LET s == [sunDetector EXCEPT !.inFlight = @ - 1, !.op = kind, !.setCalls = 0]
           after == updateThemeBasedOnTime(s, isDaytime)
       IN  sunDetector' = after[1] /\ theme' = after[2]

\* the cleanup: clearInterval(interval)
SunUnmount ==
  /\ sunDetector.mounted
  /\ sunDetector' = [sunDetector EXCEPT !.mounted = FALSE, !.interval = FALSE,
                                        !.op = "unmount", !.setCalls = 0]
  /\ UNCHANGED theme

SunIdle ==
  sunDetector = [mounted |-> FALSE, interval |-> FALSE, inFlight |-> 0, requested |-> 0,
                 hasGeolocation |-> FALSE, op |-> "render", setCalls |-> 0]

\* ------------------------------------------------------------------------
\* debounce(func, wait)
\* ------------------------------------------------------------------------
\* calls of the debounced function in one run
MaxDebounceCalls == 4

VARIABLES
  debounced       \* the closure of one debounce(func, wait): timeout (0 is null), the
                  \* timers the browser holds for it ([id, left, args]: args is what
                  \* its `later` closes over), and the history: op, calls, invoked
                  \* (arguments func ran with in the last step), last (arguments of
                  \* the last call), since (clock steps since it), burst (calls of
                  \* the burst that is pending or ran last)

DebounceInit ==
  debounced = [timeout |-> 0, timers |-> {}, nextId |-> 1, op |-> "created", calls |-> 0,
               invoked |-> <<>>, last |-> NoArgs, since |-> 0, burst |-> 0]

\* executedFunction that does not clear the pending timer
executedFunction_noClear(d, args) ==
  [d EXCEPT !.timers = @ \cup {[id |-> d.nextId, left |-> DelaySteps, args |-> args]},
            !.timeout = d.nextId,
            !.nextId = @ + 1]

\* executedFunction(...args) of debounce
executedFunction(d, args) ==
  [d EXCEPT !.timers = (IF d.timeout # 0 THEN {t \in @ : t.id # d.timeout} ELSE @)
                         \cup {[id |-> d.nextId, left |-> DelaySteps, args |-> args]},
            !.timeout = d.nextId,
            !.nextId = @ + 1]

\* later
later(d, timer) ==
  [d EXCEPT !.timeout = 0, !.invoked = Append(@, timer.args)]

DebouncedCall ==
  /\ debounced.calls < MaxDebounceCalls
  /\ \E args \in ArgLists :
       debounced' = [executedFunction([debounced EXCEPT !.invoked = <<>>], args) EXCEPT
                       !.op = "call", !.calls = @ + 1, !.last = args, !.since = 0,
                       !.burst = IF debounced.op = "timer" THEN 1 ELSE @ + 1]

\* the clock advances by one step; a timer that is due fires first
DebounceClock ==
  /\ debounced.timers # {}
  /\ \A t \in debounced.timers : t.left > 0
  /\ debounced' = [debounced EXCEPT !.timers = {[t EXCEPT !.left = @ - 1] : t \in @},
                                    !.since = @ + 1, !.op = "clock", !.invoked = <<>>]

DebounceTimerFires ==
  \E t \in debounced.timers :
    /\ t.left = 0
    /\ debounced' = [later([debounced EXCEPT !.invoked = <<>>], t) EXCEPT
                       !.timers = @ \ {t}, !.op = "timer"]

\* ------------------------------------------------------------------------
\* throttle(func, limit)
\* ------------------------------------------------------------------------
\* calls of the throttled function in one run
MaxLimitCalls == 4

VARIABLES
  limited         \* the closure of one throttle(func, limit): inThrottle, the timers
                  \* the browser holds for it ([id, left]), and the history: op, calls,
                  \* invoked (arguments func ran with in the last step), arg (of the
                  \* last call), gap (clock steps from the last call that ran func to
                  \* the last call, -1 none), since (clock steps since func ran, -1
                  \* never), ran (arguments func ran with last)

LimitInit ==
  limited = [inThrottle |-> FALSE, timers |-> {}, nextId |-> 1, op |-> "created",
             calls |-> 0, invoked |-> <<>>, arg |-> NoArgs, gap |-> -1, since |-> -1,
             ran |-> NoArgs]

\* a throttled function that runs func on every call
throttleCall_always(l, args) ==
  [l EXCEPT !.invoked = Append(@, args),
            !.inThrottle = TRUE,
            !.timers = @ \cup {[id |-> l.nextId, left |-> DelaySteps]},
            !.nextId = @ + 1]

\* executedFunction(...args) of throttle
throttleCall(l, args) ==
  IF ~l.inThrottle
  THEN [l EXCEPT !.invoked = Append(@, args),
                 !.inThrottle = TRUE,
                 !.timers = @ \cup {[id |-> l.nextId, left |-> DelaySteps]},
                 !.nextId = @ + 1]
  ELSE l

LimitedCall ==
  /\ limited.calls < MaxLimitCalls
  /\ \E args \in ArgLists :
       LET after == throttleCall([limited EXCEPT !.invoked = <<>>], args)
       IN  limited' = [after EXCEPT !.op = "call", !.calls = @ + 1, !.arg = args,
                                    !.gap = limited.since,
                                    !.since = IF after.invoked # <<>> THEN 0 ELSE @,
                                    !.ran = IF after.invoked # <<>> THEN args ELSE @]

\* the clock advances by one step; a timer that is due fires first
LimitClock ==
  /\ limited.timers # {}
  /\ \A t \in limited.timers : t.left > 0
  /\ limited' = [limited EXCEPT !.timers = {[t EXCEPT !.left = @ - 1] : t \in @},
                                !.since = IF @ = -1 THEN -1 ELSE @ + 1,
                                !.op = "clock", !.invoked = <<>>]

\* () => { inThrottle = false }
LimitTimerFires ==
  \E t \in limited.timers :
    /\ t.left = 0
    /\ limited' = [limited EXCEPT !.timers = @ \ {t}, !.inThrottle = FALSE,
                                  !.op = "timer", !.invoked = <<>>]

\* ------------------------------------------------------------------------
\* Specifications
\* ------------------------------------------------------------------------
\* the performance utilities, the earlier card and the page
perfSide == <<classifier, environment, earlierCard, throttle, page>>

\* the theme components
themeSide == <<theme, button, detector, applier, sunDetector>>

\* debounce and throttle
timerSide == <<debounced, limited>>

others == <<perfSide, themeSide, timerSide>>

allVars == <<vars, others>>

\* the components a step of one component leaves alone
besideClassifier == <<environment, earlierCard, throttle, page, themeSide, timerSide>>

besideEnvironment == <<classifier, earlierCard, throttle, page, themeSide, timerSide>>

besideEarlierCard == <<classifier, environment, throttle, page, themeSide, timerSide>>

besideThrottle == <<classifier, environment, earlierCard, page, themeSide, timerSide>>

besidePage == <<classifier, environment, earlierCard, throttle, themeSide, timerSide>>

\* a page that is mounted and never scrolled
PageIdle == PageInit /\ page.innerHeight = 1000

\* the components that take no step in a specification
PerfIdle == ClassifierIdle /\ EnvironmentIdle /\ EarlierInit /\ ThrottleInit /\ PageIdle

ThemeIdle == ButtonIdle /\ DetectorIdle /\ ApplierIdle /\ SunIdle

TimerIdle == DebounceInit /\ LimitInit

Idle == PerfIdle /\ ThemeIdle /\ TimerIdle

\* one mounted card
Next ==
  \/ \E e \in Samples : handleMouseEnter(e.clientX, e.clientY) /\ UNCHANGED others
  \/ \E e \in Samples : handleMouseMove(e.clientX, e.clientY) /\ UNCHANGED others
  \/ handleMouseLeave /\ UNCHANGED others
  \/ FrameTick /\ UNCHANGED others
  \/ Unmount /\ UNCHANGED others
  \/ LayoutShift /\ UNCHANGED others

InitCard == Init /\ Idle

Spec == InitCard /\ [][Next]_allVars

\* the classifier alone, called on one snapshot
NextClassifier ==
  \/ Classify /\ UNCHANGED <<vars, besideClassifier>>

\* the card of the initial render on a desktop, left alone
CardIdle ==
  Init /\ rect.left = 0 /\ perfSettings.maxRotation = DesktopMaxRotation
       /\ perfSettings.enableTransitions

InitClassifier ==
  /\ CardIdle /\ ClassifierInit /\ EnvironmentIdle /\ EarlierInit /\ ThrottleInit /\ PageIdle
  /\ ThemeIdle /\ TimerIdle

SpecClassifier == InitClassifier /\ [][NextClassifier]_allVars

\* one mounted card whose runtime changes under it
NextProfile ==
  \/ EnvironmentChange /\ UNCHANGED besideEnvironment
  \/ Rerender /\ UNCHANGED besideEnvironment
  \/ \E e \in ProfileSamples : handleMouseEnter(e.clientX, e.clientY) /\ UNCHANGED others
  \/ \E e \in ProfileSamples : handleMouseMove(e.clientX, e.clientY) /\ UNCHANGED others
  \/ handleMouseLeave /\ UNCHANGED others
  \/ FrameTick /\ UNCHANGED others
  \/ Unmount /\ UNCHANGED others

InitProfile ==
  /\ Init /\ ProfileInit /\ ClassifierIdle /\ EarlierInit /\ ThrottleInit /\ PageIdle
  /\ ThemeIdle /\ TimerIdle

SpecProfile == InitProfile /\ [][NextProfile]_allVars

\* the earlier and the current card under the same pointer events
NextVersions ==
  \/ BothEnter /\ UNCHANGED besideEarlierCard
  \/ BothMove /\ UNCHANGED besideEarlierCard
  \/ BothLeave /\ UNCHANGED besideEarlierCard
  \/ FrameTick /\ UNCHANGED others
  \/ LayoutShift /\ UNCHANGED others

\* both cards after the first render; the motion preference plays no part
InitVersions == Init /\ Idle /\ perfSettings.enableTransitions

SpecVersions == InitVersions /\ [][NextVersions]_allVars

\* one throttled function and the display refresh
NextThrottle ==
  \/ ThrottledCall /\ UNCHANGED <<vars, besideThrottle>>
  \/ ThrottleTick /\ UNCHANGED <<vars, besideThrottle>>

InitThrottle == CardIdle /\ Idle

SpecThrottle == InitThrottle /\ [][NextThrottle]_allVars

\* the page, its scroll events and the display refresh
NextPage ==
  \/ Scroll /\ UNCHANGED <<vars, besidePage>>
  \/ Resize /\ UNCHANGED <<vars, besidePage>>
  \/ PageTick /\ UNCHANGED <<vars, besidePage>>
  \/ PageUnmount /\ UNCHANGED <<vars, besidePage>>

InitPage ==
  /\ CardIdle /\ ClassifierIdle /\ EnvironmentIdle /\ EarlierInit /\ ThrottleInit /\ PageInit
  /\ ThemeIdle /\ TimerIdle

SpecPage == InitPage /\ [][NextPage]_allVars

\* the theme components beside the button and the active theme
besideButton == <<detector, applier, sunDetector>>

\* the theme components beside the detector, the button and the active theme
besideDetector == <<applier, sunDetector>>

\* the theme button, the pointer, the keyboard and the clock
NextThemeButton ==
  \/ PointerEnter /\ UNCHANGED <<vars, perfSide, besideButton, timerSide>>
  \/ PointerLeave /\ UNCHANGED <<vars, perfSide, besideButton, timerSide>>
  \/ ClockStep /\ UNCHANGED <<vars, perfSide, besideButton, timerSide>>
  \/ HoverTimerFires /\ UNCHANGED <<vars, perfSide, besideButton, timerSide>>
  \/ MouseDown /\ UNCHANGED <<vars, perfSide, besideButton, timerSide>>
  \/ KeyDown /\ UNCHANGED <<vars, perfSide, besideButton, timerSide>>
  \/ ThemeSelect /\ UNCHANGED <<vars, perfSide, besideButton, timerSide>>
  \/ ButtonClick /\ UNCHANGED <<vars, perfSide, besideButton, timerSide>>

InitThemeButton ==
  /\ CardIdle /\ PerfIdle /\ ButtonInit /\ theme \in ThemeValues
  /\ DetectorIdle /\ ApplierIdle /\ SunIdle /\ TimerIdle

SpecThemeButton == InitThemeButton /\ [][NextThemeButton]_allVars

\* the override-aware detector, the user and the system colour scheme
NextAutoTheme ==
  \/ DetectorEffect /\ UNCHANGED <<vars, perfSide, besideDetector, timerSide>>
  \/ SystemChange /\ UNCHANGED <<vars, perfSide, besideDetector, timerSide>>
  \/ StorageWrite /\ UNCHANGED <<vars, perfSide, besideDetector, timerSide>>
  \/ UserPick /\ UNCHANGED <<vars, perfSide, besideDetector, timerSide>>
  \/ OpenDropdown /\ UNCHANGED <<vars, perfSide, besideDetector, timerSide>>
  \/ DetectorUnmount /\ UNCHANGED <<vars, perfSide, besideDetector, timerSide>>

InitAutoTheme ==
  /\ CardIdle /\ PerfIdle /\ ButtonInit /\ theme \in {"dark", "light", "nord"}
  /\ DetectorInit /\ ApplierIdle /\ SunIdle /\ TimerIdle

SpecAutoTheme == InitAutoTheme /\ [][NextAutoTheme]_allVars

\* the theme applier, the attribute writes and the observer
NextApplier ==
  \/ ApplierMount /\ UNCHANGED <<vars, perfSide, theme, button, detector, sunDetector, timerSide>>
  \/ SetDataTheme /\ UNCHANGED <<vars, perfSide, theme, button, detector, sunDetector, timerSide>>
  \/ ObserverRuns /\ UNCHANGED <<vars, perfSide, theme, button, detector, sunDetector, timerSide>>
  \/ ApplierUnmount /\ UNCHANGED <<vars, perfSide, theme, button, detector, sunDetector, timerSide>>

InitApplier ==
  /\ CardIdle /\ PerfIdle /\ ButtonIdle /\ DetectorIdle /\ ApplierInit /\ SunIdle
  /\ TimerIdle

SpecApplier == InitApplier /\ [][NextApplier]_allVars

\* the sunrise / sunset detector, its poll and the geolocation service
NextSun ==
  \/ SunMount /\ UNCHANGED <<vars, perfSide, button, detector, applier, timerSide>>
  \/ SunPoll /\ UNCHANGED <<vars, perfSide, button, detector, applier, timerSide>>
  \/ GeoAnswer /\ UNCHANGED <<vars, perfSide, button, detector, applier, timerSide>>
  \/ SunUnmount /\ UNCHANGED <<vars, perfSide, button, detector, applier, timerSide>>

InitSun ==
  /\ CardIdle /\ PerfIdle /\ ButtonInit /\ theme \in ThemeValues
  /\ DetectorIdle /\ ApplierIdle /\ SunInit /\ TimerIdle

SpecSun == InitSun /\ [][NextSun]_allVars

\* one debounced function and the clock
NextDebounce ==
  \/ DebouncedCall /\ UNCHANGED <<vars, perfSide, themeSide, limited>>
  \/ DebounceClock /\ UNCHANGED <<vars, perfSide, themeSide, limited>>
  \/ DebounceTimerFires /\ UNCHANGED <<vars, perfSide, themeSide, limited>>

InitDebounce == CardIdle /\ Idle

SpecDebounce == InitDebounce /\ [][NextDebounce]_allVars

\* one throttled function and the clock
NextLimit ==
  \/ LimitedCall /\ UNCHANGED <<vars, perfSide, themeSide, debounced>>
  \/ LimitClock /\ UNCHANGED <<vars, perfSide, themeSide, debounced>>
  \/ LimitTimerFires /\ UNCHANGED <<vars, perfSide, themeSide, debounced>>

InitLimit == CardIdle /\ Idle

SpecLimit == InitLimit /\ [][NextLimit]_allVars

\* ------------------------------------------------------------------------
\* Properties of the pointer tilt & glow engine
\* ------------------------------------------------------------------------
\* C1: at most one animation-frame callback of handleMouseMove is outstanding
\* in every reachable state; callbacks never stack.
C1_AtMostOnePending == Cardinality(rafQueue) <= 1

\* a second mousemove arrived while the callback of the first was pending
C1_Witness ==
  lastOp = "move" /\ moveCount >= 2 /\ Cardinality(rafQueue) = 1

\* C2: when N >= 1 mousemove events arrived since the previous refresh tick of
\* a mounted card, the tick applies exactly one mutation, computed from the
\* coordinates of the last of them.
C2_Coalescing ==
  (lastOp = "tick" /\ phase = "mounted" /\ tickMoves >= 1) => applied = <<tickSample>>

C2_Witness ==
  lastOp = "tick" /\ phase = "mounted" /\ tickMoves >= 2 /\ applied = <<tickSample>>

\* C3: handling mouseleave leaves no frame callback pending, so no sample
\* taken before the leave is applied after it.
C3_LeaveCancelsPending == lastOp = "leave" => rafQueue = {}

\* C4: a mouseleave sets the rotation to the resting pose (15, -20, 5) and
\* isHovered to false, and leaves glowX / glowY as they were.
C4_ResetOnLeave ==
  [][lastOp' = "leave" =>
       /\ rotateX' = Int2Num(RestX)
       /\ rotateY' = Int2Num(RestY)
       /\ rotateZ' = Int2Num(RestZ)
       /\ isHovered' = FALSE
       /\ glowX' = glowX
       /\ glowY' = glowY]_vars

\* the leave follows a tick that tilted the card and moved the glow to the right edge
C4_Witness ==
  lastOp = "leave" /\ ticksSinceMutation = 0 /\ glowX = Int2Num(100) /\ ~isHovered

\* C5: once the card is unmounted no frame callback is pending and no field of
\* the tilt state changes any more.
C5_PostDisposeSilence ==
  [][phase' = "disposed" =>
       /\ rafQueue' = {}
       /\ (phase = "disposed" => UNCHANGED tilt)]_vars

\* a callback was pending at unmount (its handle is still in rafIdRef) and a
\* refresh tick has passed since
C5_Witness == phase = "disposed" /\ lastOp = "tick" /\ rafIdRef # 0

\* C6: two consecutive frame-callback mutations are at least throttleDelay ms
\* apart (the clock is exact below its cap; a capped reading is not judged).
C6_ThrottleSpacing ==
  [][(applied' # <<>> /\ ticksSinceMutation \in 0..(MaxGapTicks - 1)) =>
       (ticksSinceMutation + 1) * RefreshIntervalMs >= perfSettings.throttleDelay]_vars

InPercentRange(a) == Leq(Int2Num(0), a) /\ Leq(a, Int2Num(100))

\* C7: glowX and glowY of a mounted card lie in [0, 100] in every reachable state.
C7_GlowInRange == phase = "mounted" => InPercentRange(glowX) /\ InPercentRange(glowY)

\* C8: the roll a frame tick applies is rotateZ = 5 + nx * (maxRotation * 0.3),
\* nx being the damped normalized horizontal offset of the applied sample.
C8_RollOffset ==
  (lastOp = "tick" /\ applied # <<>>) =>
    LET e == applied[Len(applied)]
        nx == normalized(e.clientX, rect.left, rect.width)
    IN  rotateZ = Add(Int2Num(RestZ),
                      Mul(nx, Mul(Int2Num(perfSettings.maxRotation), Num(3, 10))))

\* C9: after a tick that applied a sample lying inside the measured rectangle,
\* |rotateX - 15| <= maxRotation and |rotateY + 20| <= maxRotation, and on the
\* rectangle's edges the offset is exactly 0.8 * maxRotation in magnitude.
C9_BoundedRotation ==
  (lastOp = "tick" /\ applied # <<>> /\
   Inside(applied[Len(applied)].clientX, applied[Len(applied)].clientY, rect)) =>
    LET e == applied[Len(applied)]
        M == Int2Num(perfSettings.maxRotation)
        offX == Sub(rotateX, Int2Num(RestX))
        offY == Sub(rotateY, Int2Num(RestY))
        edge == Mul(Num(8, 10), M)
    IN  /\ Leq(NumAbs(offX), M)
        /\ Leq(NumAbs(offY), M)
        /\ (e.clientX = rect.left + rect.width => offY = edge)
        /\ (e.clientX = rect.left => offY = Neg(edge))
        /\ (e.clientY = rect.top + rect.height => offX = Neg(edge))
        /\ (e.clientY = rect.top => offX = edge)

\* the sample at the right edge was applied under the mobile profile
C9_Witness ==
  /\ lastOp = "tick" /\ applied # <<>>
  /\ Inside(applied[Len(applied)].clientX, applied[Len(applied)].clientY, rect)
  /\ applied[Len(applied)].clientX = rect.left + rect.width
  /\ perfSettings.maxRotation = MobileMaxRotation
  /\ rotateY = Int2Num(-16)

\* C10: a frame tick that finds the element ref null or the rectangle
\* zero-sized leaves rotateX/Y/Z and glowX/Y as they were.
C10_MeasurementFailureNoOp ==
  [][(lastOp' = "tick" /\ rafQueue # {} /\
      (~cardRef \/ rect.width = 0 \/ rect.height = 0)) =>
       UNCHANGED <<rotateX, rotateY, rotateZ, glowX, glowY>>]_vars

C12_FailOpen ==
  LET r == classifier.runtime
      res == classifier.result
  IN  classifier.calls >= 1 =>
        /\ res.outcome = "returned"
        /\ (~r.hasWindow =>
              res.settings.maxRotation = 10 /\ res.settings.enableComplexFilters
              /\ res.settings.enableTransitions)
        /\ (r.hasWindow /\ ~r.hasMatchMedia => res.settings.enableTransitions)
        /\ (r.hasWindow /\ ~r.onTouchStart /\ r.maxTouchPoints = Undefined =>
              (res.settings.maxRotation = 10 <=> r.innerWidth > 768))

\* C18: the rotation limit follows the width tiers of the settings matrix:
\* 10 degrees for 481-768 px and above 768 px, 5 degrees only below 481 px.
C18_TierMatrix ==
  LET r == classifier.runtime
      res == classifier.result
  IN  (classifier.calls >= 1 /\ r.hasWindow /\ res.outcome = "returned") =>
        /\ (r.innerWidth >= 481 /\ r.innerWidth <= 768 => res.settings.maxRotation = 10)
        /\ (r.innerWidth > 768 => res.settings.maxRotation = 10)
        /\ (res.settings.maxRotation = 5 => r.innerWidth < 481)

\* C13: the profile a card uses is the one computed at mount; while the card is
\* mounted no change of the runtime and no re-render changes it.
C13_ProfileImmutable ==
  /\ perfSettings = getPerformanceSettings(environment)
  /\ [][phase = "mounted" => perfSettings' = perfSettings]_allVars

\* a render after the viewport, touch and motion signals changed still uses the
\* profile of the mount
C13_Witness ==
  /\ phase = "mounted" /\ lastOp = "render"
  /\ perfSettings.maxRotation # getPerformanceSettings(environment).maxRotation
  /\ perfSettings.enableTransitions # getPerformanceSettings(environment).enableTransitions

\* ------------------------------------------------------------------------
\* Further properties of the card
\* ------------------------------------------------------------------------
RestingPose ==
  rotateX = Int2Num(RestX) /\ rotateY = Int2Num(RestY) /\ rotateZ = Int2Num(RestZ)

\* C14: a mouseenter on a card at rest sets isHovered and puts the glow at the
\* entry point's fractional position, and the rotation stays at the resting
\* pose; a tick that follows the enter with no mousemove in between leaves it
\* there.
C14_EnterKeepsRestingPose ==
  [][/\ (lastOp' = "enter" /\ ~isHovered /\ RestingPose) =>
          /\ isHovered'
          /\ \E e \in Samples :
               /\ Inside(e.clientX, e.clientY, rect)
               /\ glowX' = Num((e.clientX - rect.left) * 100, rect.width)
               /\ glowY' = Num((e.clientY - rect.top) * 100, rect.height)
          /\ RestingPose'
     /\ (lastOp = "enter" /\ RestingPose /\ lastOp' = "tick") => RestingPose']_vars

\* C15: a tick that applies the sample (px, py) over the rectangle (L, T, W, H)
\* measured at the tick sets rotateY = -20 + ((px - (L+W/2)) / (W/2)) * 0.8 * M,
\* rotateX = 15 - ((py - (T+H/2)) / (H/2)) * 0.8 * M, glowX = (px - L) / W * 100,
\* glowY = (py - T) / H * 100; for 300x200 and M = 10 the centre gives
\* (15, -20) with glow (50, 50), the right edge at mid-height rotateY = -12
\* with glow (100, 50).
C15_TickFormulas ==
  (lastOp = "tick" /\ applied # <<>> /\ rect.width > 0 /\ rect.height > 0) =>
    LET px == applied[Len(applied)].clientX
        py == applied[Len(applied)].clientY
        L == rect.left
        T == rect.top
        W == rect.width
        H == rect.height
        M == perfSettings.maxRotation
        example == L = 0 /\ T = 0 /\ W = 300 /\ H = 200 /\ M = 10
    IN  /\ rotateY = Num(-20 * 10 * W + (2 * px - 2 * L - W) * 8 * M, 10 * W)
        /\ rotateX = Num(15 * 10 * H - (2 * py - 2 * T - H) * 8 * M, 10 * H)
        /\ glowX = Num((px - L) * 100, W)
        /\ glowY = Num((py - T) * 100, H)
        /\ (example /\ px = 150 /\ py = 100 =>
              /\ rotateX = Int2Num(15) /\ rotateY = Int2Num(-20)
              /\ glowX = Int2Num(50) /\ glowY = Int2Num(50))
        /\ (example /\ px = 300 /\ py = 100 =>
              /\ rotateY = Int2Num(-12)
              /\ glowX = Int2Num(100) /\ glowY = Int2Num(50))

\* the right edge at mid-height of the 300x200 rectangle, desktop profile
C15_Witness ==
  /\ lastOp = "tick" /\ applied = <<[clientX |-> 300, clientY |-> 100]>>
  /\ rect = [left |-> 0, top |-> 0, width |-> 300, height |-> 200]
  /\ perfSettings.maxRotation = 10
  /\ rotateY = Int2Num(-12) /\ glowX = Int2Num(100)

\* C16: the SVG filter subtree is rendered iff enableComplexFilters; the
\* transition is "none" iff enableTransitions is false; with transitions
\* enabled it lasts 0.3s while hovered and 0.6s while not.
C16_EffectGating ==
  /\ render.svgFilter <=> perfSettings.enableComplexFilters
  /\ (render.transition = "none") <=> ~perfSettings.enableTransitions
  /\ render.WebkitTransition = render.transition
  /\ (perfSettings.enableTransitions /\ isHovered =>
        render.transition = "transform 0.3s cubic-bezier(0.23, 1, 0.32, 1)")
  /\ (perfSettings.enableTransitions /\ ~isHovered =>
        render.transition = "transform 0.6s cubic-bezier(0.23, 1, 0.32, 1)")

\* a hovered card on a mobile profile with transitions enabled
C16_Witness ==
  /\ phase = "mounted" /\ isHovered /\ lastOp = "enter"
  /\ perfSettings.enableTransitions /\ ~perfSettings.enableComplexFilters
  /\ ~render.svgFilter
  /\ render.transition = "transform 0.3s cubic-bezier(0.23, 1, 0.32, 1)"

\* ------------------------------------------------------------------------
\* The versions of the card, throttleRAF, the scroll handler
\* ------------------------------------------------------------------------
\* C17 (as stated): the same enter / move / leave sequence leaves the earlier
\* and the current card with the same glow position after the mouseleave.
C17_SameGlowAfterLeave ==
  lastOp = "leave" => earlierCard.glowX = glowX /\ earlierCard.glowY = glowY

\* C17 (amended): on mouseleave both versions set the rotation to the resting
\* pose and isHovered to false; the current card leaves glowX / glowY as they
\* were, the earlier card sets them back to (50, 50).
C17_LeaveAcrossVersions ==
  [][lastOp' = "leave" =>
       /\ rotateX' = Int2Num(RestX) /\ earlierCard'.rotateX = Int2Num(RestX)
       /\ rotateY' = Int2Num(RestY) /\ earlierCard'.rotateY = Int2Num(RestY)
       /\ rotateZ' = Int2Num(RestZ) /\ earlierCard'.rotateZ = Int2Num(RestZ)
       /\ isHovered' = FALSE /\ earlierCard'.isHovered = FALSE
       /\ glowX' = glowX /\ glowY' = glowY
       /\ earlierCard'.glowX = Int2Num(InitialGlow)
       /\ earlierCard'.glowY = Int2Num(InitialGlow)]_allVars

\* both cards had their glow at the right edge when the pointer left: the
\* current card still has it there, the earlier card has it at the centre
C17_Witness ==
  /\ lastOp = "leave"
  /\ glowX = Int2Num(100)
  /\ earlierCard.glowBefore[1] = Int2Num(100)
  /\ earlierGlow = <<Int2Num(InitialGlow), Int2Num(InitialGlow)>>
  /\ rotateY = Int2Num(RestY) /\ earlierCard.rotateY = Int2Num(RestY)

\* C19: the calls of a throttled function made before the scheduled frame
\* fires request one frame only, and the frame runs callback exactly once, with
\* the arguments of the last of them; a call after the frame fired requests a
\* new frame.
C19_OncePerFrame ==
  /\ Cardinality(throttle.queue) <= 1
  /\ throttle.requested <= 1
  /\ throttle.op = "call" => throttle.queue = {throttle.rafId} /\ throttle.requested = 1
  /\ throttle.op = "frame" =>
       /\ throttle.queue = {} /\ throttle.rafId = 0
       /\ throttle.ran = IF throttle.served = <<>> THEN <<>>
                         ELSE <<throttle.served[Len(throttle.served)]>>

\* a frame served three calls with different arguments
C19_Witness ==
  /\ throttle.op = "frame"
  /\ Len(throttle.served) = 3
  /\ throttle.served[1] # throttle.served[3]
  /\ throttle.ran = <<throttle.served[3]>>
  /\ throttle.nextId = 3

\* C20: the scroll handler keeps at most one frame pending (a scroll event
\* replaces the frame not yet fired by its own); after the unmount no frame is
\* pending and scrollProgress never changes; a fired frame sets scrollProgress
\* once, to min(scrollY / innerHeight, 1) of the moment it fires.
C20_ScrollFrames ==
  /\ [](/\ Cardinality(page.queue) <= 1
        /\ (page.op = "scroll" /\ page.mounted) => page.queue = {page.rafIdRef}
        /\ ~page.mounted => page.queue = {} /\ page.sets = 0
        /\ (page.op = "frame" /\ page.sets > 0) =>
             /\ page.sets = 1
             /\ page.scrollProgress =
                  MathMin(Div(Int2Num(page.scrollY), Int2Num(page.innerHeight)), Int2Num(1)))
  /\ [][~page.mounted => page'.scrollProgress = page.scrollProgress]_allVars

\* a frame set the progress to 1/2; the frame of a later scroll was pending at
\* the unmount, and the refresh after it set nothing
C20_Witness ==
  /\ ~page.mounted /\ page.op = "frame" /\ page.rafIdRef # 0
  /\ page.scrollProgress = Num(1, 2)
  /\ page.scrollY = 2000 /\ page.innerHeight = 500

\* ------------------------------------------------------------------------
\* The resting card
\* ------------------------------------------------------------------------
\* C25: a mounted card whose isHovered is false has the rotation of the resting
\* pose (15, -20, 5).
C25_NotHoveredAtRest == (phase = "mounted" /\ ~isHovered) => RestingPose

\* ------------------------------------------------------------------------
\* Properties of the theme button
\* ------------------------------------------------------------------------
\* C21: a click on the button with a registered theme active makes the first
\* theme of the list whose type is the opposite one active, so the type flips;
\* with an unregistered theme active it makes 'dark' active.
C21_ToggleByType ==
  (button.op = "click" /\ button.from # "") =>
    IF button.from \in ThemeIds
    THEN LET cur == CHOOSE i \in 1..Len(themes) : themes[i].id = button.from
             first == CHOOSE i \in 1..Len(themes) :
                        /\ themes[i].type # themes[cur].type
                        /\ \A j \in 1..(i - 1) : themes[j].type = themes[cur].type
         IN  theme = themes[first].id /\ getTheme(theme).type # themes[cur].type
    ELSE theme = "dark"

\* the toggle took the light theme to the first dark one
C21_Witness == button.op = "click" /\ button.from = "light" /\ theme = "dark"

\* C23: the hover timer opens the dropdown only when the pointer has been in
\* the container for the whole delay; a pointer-leave leaves no timer behind,
\* and nothing but the timer opens the dropdown.
C23_HoverDelay ==
  /\ [](/\ button.op = "timer" => button.pointerInside /\ button.stayed = DelaySteps
        /\ button.op = "leave" => button.timers = {})
  /\ [][(~button.showDropdown /\ button'.showDropdown) => button'.op = "timer"]_allVars

\* the pointer left before the delay elapsed, came back and stayed: the timer
\* of the second hover opened the dropdown
C23_Witness ==
  /\ button.op = "timer" /\ button.showDropdown /\ button.nextTimerId = 3
  /\ button.stayed = DelaySteps /\ button.timers = {}

\* C24: a pointer-leave does not close the open dropdown; it closes on Escape,
\* on a mousedown outside the container and on the selection of an entry, and
\* on nothing else; the selection makes the entry's id the active theme.
C24_DropdownCloses ==
  [][/\ button'.op = "leave" => button'.showDropdown = button.showDropdown
     /\ (button.showDropdown /\ ~button'.showDropdown) =>
          button'.op \in {"Escape", "mousedown outside", "select"}
     /\ (button.showDropdown /\ button'.op \in {"Escape", "mousedown outside", "select"}
           /\ button' # button) => ~button'.showDropdown
     /\ button'.op = "select" => theme' = button'.arg /\ ~button'.showDropdown]_allVars

\* an entry other than the active theme was selected in the open dropdown
C24_Witness ==
  /\ button.op = "select" /\ ~button.showDropdown
  /\ button.arg = "nord" /\ theme = "nord" /\ button.from = "light"

\* ------------------------------------------------------------------------
\* Properties of the automatic theme detectors
\* ------------------------------------------------------------------------
\* C22: when the override key is in localStorage while the effect runs or a
\* colour-scheme change is delivered, the detector does not call setTheme.
C22_OverrideRespected ==
  (detector.op \in {"effect", "change"} /\ ~detector.storage.isNull) => detector.setCalls = 0

\* C26: while the detector is mounted the theme the user picked last is the
\* active theme.
C26_PickStays ==
  (detector.mounted /\ detector.picked # "") => theme = detector.picked

\* C28: after the unmount of the sunrise / sunset detector the poll is not
\* registered and no step calls setTheme.
C28_SilentAfterUnmount ==
  ~sunDetector.mounted => ~sunDetector.interval /\ sunDetector.setCalls = 0

\* ------------------------------------------------------------------------
\* Properties of the theme applier
\* ------------------------------------------------------------------------
\* the value the theme gives a custom property
themeValue(colors, p) ==
  CASE p = "--background" -> colors.background
    [] p = "--foreground" -> colors.foreground
    [] p = "--card" -> colors.card
    [] p = "--card-foreground" -> colors.cardForeground
    [] p = "--border" -> colors.border
    [] p = "--accent" -> colors.accent
    [] p = "--accent-foreground" -> colors.accentForeground
    [] p = "--muted" -> colors.muted
    [] p = "--muted-foreground" -> colors.mutedForeground
    [] p = "--electric-border-color" -> colors.electricBorder
    [] p = "--electric-light-color" -> colors.electricLight
    [] p = "--gradient-color" -> colors.gradient
    [] p = "--silver-bright" -> colors.silverBright
    [] p = "--silver-medium" -> colors.silverMedium
    [] p = "--silver-dark" -> colors.silverDark
    [] p = "--name-color" -> colors.nameColor
    [] p = "--role-color" -> colors.roleColor
    [] OTHER -> colors.iconColors[CHOOSE i \in 1..6 : IconProperties[i] = p]

\* C27: when the observer is connected and has been told of every write of
\* data-theme, each theme custom property of the document root has the value
\* the theme named by data-theme gives it.
C27_StyleFollowsTheme ==
  (applier.mounted /\ applier.records = 0 /\ applier.dataTheme \in ThemeIds) =>
    \A p \in ThemeProperties :
      applier.style[p] = themeValue(getTheme(applier.dataTheme).colors, p)

\* the observer ran after two theme changes, the second one to Tokyo Night
C27_Witness ==
  /\ applier.op = "observer" /\ applier.mounted /\ applier.records = 0
  /\ applier.dataTheme = "tokyo-night"
  /\ applier.style["--icon-color-6"] = "#9ece6a"
  /\ applier.style["--background"] = "#1a1b26"

\* ------------------------------------------------------------------------
\* Properties of debounce and throttle
\* ------------------------------------------------------------------------
\* C29: a call of the debounced function never runs func; one timer at most is
\* pending; when it fires, a whole wait after the last call, func runs once
\* with the arguments of that call.
C29_DebounceTrailing ==
  /\ Cardinality(debounced.timers) <= 1
  /\ debounced.op = "call" => debounced.invoked = <<>> /\ Cardinality(debounced.timers) = 1
  /\ debounced.op = "clock" => debounced.invoked = <<>>
  /\ debounced.op = "timer" =>
       /\ debounced.invoked = <<debounced.last>>
       /\ debounced.since = DelaySteps
       /\ debounced.timers = {}

\* a burst of three calls, each before the timer of the one before it fired,
\* ended in one run of func with the arguments of the third
C29_Witness ==
  /\ debounced.op = "timer" /\ debounced.burst = 3
  /\ debounced.invoked = <<debounced.last>> /\ debounced.since = DelaySteps

\* C30: the first call runs func at once; a call less than limit after a call
\* that ran func does not run it, and no later step runs it for that call:
\* func runs only inside a call, with the arguments of that call.
C30_ThrottleLeading ==
  /\ limited.op # "call" => limited.invoked = <<>>
  /\ limited.op = "call" =>
       /\ limited.invoked \in {<<>>, <<limited.arg>>}
       /\ limited.gap = -1 => limited.invoked = <<limited.arg>>
       /\ (limited.gap >= 0 /\ limited.gap < DelaySteps) => limited.invoked = <<>>

\* a call inside the window of an earlier one, with other arguments, was dropped
C30_Witness ==
  /\ limited.op = "call" /\ limited.gap >= 0 /\ limited.gap < DelaySteps
  /\ limited.invoked = <<>> /\ limited.arg # limited.ran /\ limited.ran # NoArgs

====
